---------------------------- MODULE Spec2Model ----------------------------
(***************************************************************************)
(* FuelCarEnv (gym_fuel/envs/FuelCar.py): a car on a 50 km circuit with    *)
(* five discrete actions.  self.state is the 6-tuple                       *)
(*   (position, speed, gear, revolutions, consume, limit).                 *)
(*                                                                         *)
(* The code computes in floating point; the model keeps every quantity     *)
(* exact, as an integer number of fixed units:                             *)
(*   position     in 1/PosScale metres        (0.2778 = 2778/10000)        *)
(*   speed, limit in km/h, gear as is                                      *)
(*   revolutions  in 1/RevDen rpm                                          *)
(*       gear_r*4.64*speed*1000/(1.83*60) = (100*gear_r)*464*speed/1098    *)
(*   consume      in 1/ConsScale              (coefficients have 4 places) *)
(*   reward       in 1/RewardScale, RewardScale = lcm(10000, 100*1098)     *)
(* speed is always a multiple of 6, so a position below the end of the     *)
(* circuit is a multiple of 6*0.2778 = 1.6668 m; no such multiple equals a *)
(* breakpoint (463 divides 16668 and no breakpoint), and no revolutions    *)
(* value equals 2000, 3000 or 6000, so every comparison of the code has    *)
(* the same outcome on the exact values as on the floating-point ones.     *)
(***************************************************************************)
EXTENDS Integers, Sequences, FiniteSets, TLC

VARIABLES
    state,    \* self.state: the 6-tuple, or <<>> while the attribute is not set
    call,     \* the last call: <<"reset", 0>>, <<"step", action>>, <<"none", 0>>
    pre,      \* self.state as it was when the last call started
    raised,   \* "" when the last call returned, else the exception it raised
    reward,   \* the reward the last returning step returned
    done,     \* the done flag the last returning step returned
    steps,    \* number of step calls since Init or the last reset
    lookup    \* <<int(gear-1)>> when the last call indexed gear_r, else <<>>

vars == <<state, call, pre, raised, reward, done, steps, lookup>>

---------------------------------------------------------------------------
(* Units of the fixed-point representation *)
PosScale == 10000
ConsScale == 10000
RevDen == 1098
RewardScale == 5490000

(* FuelCarEnv.__init__ *)
min_position == 0
max_position == 50000
min_speed == 0
max_speed == 180
min_gear == 1
max_gear == 6
min_limit == 40
max_limit == 150
min_revolutions == 0
max_revolutions == 6000
min_consume == 0
max_consume == 30
\* gear_r = [2.5, 1.4, 0.9, 0.7, 0.55, 0.45], times 100
gear_r == <<250, 140, 90, 70, 55, 45>>
\* alpha = 1.8, beta1 = 100, beta2 = 1.22, in reward units per unit
alpha == 18 * (RewardScale \div 10)
beta1 == 100
beta2 == 122 * (RewardScale \div 100)

\* class docstring, Episode Termination: "The episode length is higher than 40000"
episode_length_limit == 40000

\* spaces.Discrete(6) / spaces.Discrete(4) in place of spaces.Discrete(5)
action_space_contains_six(action) == action \in 0..5
action_space_contains_four(action) == action \in 0..3

\* spaces.Discrete(5).contains(action)
action_space_contains(action) == action \in 0..4

\* Python list indexing seq[i]: a negative index counts from the end
py_index(seq, i) == IF i >= 0 THEN seq[i + 1] ELSE seq[Len(seq) + i + 1]

\* the indices Python accepts for seq; any other raises IndexError
index_in_range(seq, i) == i >= -Len(seq) /\ i < Len(seq)

\* int(gear-1), the index of the gear_r lookup
lookup_index(gear) == gear - 1

\* np.clip(x, lo, hi)
clip(x, lo, hi) == IF x < lo THEN lo ELSE IF x > hi THEN hi ELSE x

\* field accessors of the state tuple
position_of(s) == s[1]
speed_of(s) == s[2]
gear_of(s) == s[3]
revolutions_of(s) == s[4]
consume_of(s) == s[5]
limit_of(s) == s[6]

---------------------------------------------------------------------------
(* step, line by line *)

\* speed += action * 6, the offset of the action forgotten
speed_update_no_offset(speed, action) ==
    IF action \in {0, 1, 2} THEN speed + action * 6 ELSE speed

\* if action in [0, 1, 2]: speed += (action - 1) * 6
speed_update(speed, action) ==
    IF action \in {0, 1, 2} THEN speed + (action - 1) * 6 ELSE speed

\* the np.clip of the gear not executed before the gear_r lookup
gear_update_unclipped(gear, action) ==
    IF action \in {3, 4} THEN gear + (2 * (action - 4) + 1) ELSE gear

\* the gear clipped to [0, max_gear] instead of [min_gear, max_gear]
gear_update_from_zero(gear, action) ==
    IF action \in {3, 4}
    THEN clip(gear + (2 * (action - 4) + 1), 0, max_gear)
    ELSE gear

\* elif action in [3, 4]: gear += 2/1*(action-4)+1; gear = np.clip(gear, 1, 6)
gear_update(gear, action) ==
    IF action \in {0, 1, 2} THEN gear
    ELSE IF action \in {3, 4}
         THEN clip(gear + (2 * (action - 4) + 1), min_gear, max_gear)
         ELSE gear

\* revolutions = (gear_r[int(gear-1)]*4.64*speed*1000)/(1.83*60), clipped;
\* speed here is the speed before its clip
revolutions_update(gear, speed) ==
    clip(py_index(gear_r, lookup_index(gear)) * 464 * speed,
         min_revolutions * RevDen, max_revolutions * RevDen)

\* the speed clipped from above only: np.clip(speed, None, max_speed)
speed_clip_upper_only(speed) == IF speed > max_speed THEN max_speed ELSE speed

\* the speed clipped to [0, 175]
speed_clip_to_175(speed) == clip(speed, min_speed, max_speed - 5)

\* the clip of the speed left out
speed_clip_missing(speed) == speed

\* speed = np.clip(speed, min_speed, max_speed)
speed_clip(speed) == clip(speed, min_speed, max_speed)

\* position += speed*0.2778; position = np.clip(position, 0, max_position)
position_update(position, speed) ==
    clip(position + speed * 2778, min_position * PosScale, max_position * PosScale)

\* the six ifs written as one if/elif chain: the first breakpoint exceeded wins
limit_update_elif(position, limit) ==
    IF position > 3000 * PosScale THEN 120
    ELSE IF position > 7000 * PosScale THEN 100
    ELSE IF position > 20000 * PosScale THEN 70
    ELSE IF position > 30000 * PosScale THEN 140
    ELSE IF position > 35000 * PosScale THEN 80
    ELSE IF position > 40000 * PosScale THEN 90
    ELSE limit

\* the last of the six ifs (position > 40000) missing
limit_update_five_zones(position, limit) ==
    LET l1 == IF position > 3000 * PosScale THEN 120 ELSE limit
        l2 == IF position > 7000 * PosScale THEN 100 ELSE l1
        l3 == IF position > 20000 * PosScale THEN 70 ELSE l2
        l4 == IF position > 30000 * PosScale THEN 140 ELSE l3
        l5 == IF position > 35000 * PosScale THEN 80 ELSE l4
    IN  l5

\* the six speed-limit ifs, in order
limit_update(position, limit) ==
    LET l1 == IF position > 3000 * PosScale THEN 120 ELSE limit
        l2 == IF position > 7000 * PosScale THEN 100 ELSE l1
        l3 == IF position > 20000 * PosScale THEN 70 ELSE l2
        l4 == IF position > 30000 * PosScale THEN 140 ELSE l3
        l5 == IF position > 35000 * PosScale THEN 80 ELSE l4
        l6 == IF position > 40000 * PosScale THEN 90 ELSE l5
    IN  l6

\* the chain ends after gear 5: the branch for gear 6 is missing
consume_update_five_gears(gear, speed, consume) ==
    LET c == CASE gear = 1 -> 59 * speed * speed - 1857 * speed + 110892
               [] gear = 2 -> 12 * speed * speed - 574 * speed + 66088
               [] gear = 3 -> 5 * speed * speed - 207 * speed + 45582
               [] gear = 4 -> 4 * speed * speed - 216 * speed + 41160
               [] gear = 5 -> 4 * speed * speed - 183 * speed + 36267
               [] OTHER -> consume
    IN  clip(c, min_consume * ConsScale, max_consume * ConsScale)

\* the if/elif chain on gear; consume is left as it was when no branch matches
consume_update(gear, speed, consume) ==
    LET c == CASE gear = 1 -> 59 * speed * speed - 1857 * speed + 110892
               [] gear = 2 -> 12 * speed * speed - 574 * speed + 66088
               [] gear = 3 -> 5 * speed * speed - 207 * speed + 45582
               [] gear = 4 -> 4 * speed * speed - 216 * speed + 41160
               [] gear = 5 -> 4 * speed * speed - 183 * speed + 36267
               [] gear = 6 -> 4 * speed * speed - 198 * speed + 34347
               [] OTHER -> consume
    IN  clip(c, min_consume * ConsScale, max_consume * ConsScale)

\* done = bool(position > self.max_position)
done_of_strict(position) == position > max_position * PosScale

\* done = bool(position >= self.max_position)
done_of(position) == position >= max_position * PosScale

\* reward_vel = self.alpha*speed-consume
reward_vel(speed, consume) == alpha * speed - consume * (RewardScale \div ConsScale)

\* if speed >= limit
reward_pen_at_limit(speed, limit) ==
    IF speed >= limit THEN (-speed - limit) * RewardScale ELSE 0

\* if speed > limit: reward_pen = -speed-limit
reward_pen(speed, limit) ==
    IF speed > limit THEN (-speed - limit) * RewardScale ELSE 0

\* if revolutions > 3000, the lower threshold forgotten
rev_pen_upper_only(revolutions, speed) ==
    IF revolutions > 3000 * RevDen
    THEN -(revolutions * (RewardScale \div (RevDen * beta1))) - speed * beta2
    ELSE 0

\* if revolutions > 3000 or revolutions < 2000:
\*     rev_pen = -revolutions/self.beta1-speed*self.beta2
rev_pen(revolutions, speed) ==
    IF revolutions > 3000 * RevDen \/ revolutions < 2000 * RevDen
    THEN -(revolutions * (RewardScale \div (RevDen * beta1))) - speed * beta2
    ELSE 0

\* the state step assigns to self.state
step_state(s, action) ==
    LET speed0 == speed_update(speed_of(s), action)
        gear == gear_update(gear_of(s), action)
        revolutions == revolutions_update(gear, speed0)
        speed == speed_clip(speed0)
        position == position_update(position_of(s), speed)
        limit == limit_update(position, limit_of(s))
        consume == consume_update(gear, speed, consume_of(s))
    IN  <<position, speed, gear, revolutions, consume, limit>>

\* reward = reward_vel + reward_pen + rev_pen, on the values step has computed
step_reward(t) ==
    reward_vel(speed_of(t), consume_of(t))
    + reward_pen(speed_of(t), limit_of(t))
    + rev_pen(revolutions_of(t), speed_of(t))

\* the limit drawn from [50, 150] inclusive: randint(50, 150)
reset_state_inclusive(L) == <<0, 0, 1, 0, 0, L + 1>>

\* np.array([0, 0, 1, 0, 0, randrange(50, 150)])
reset_state(L) == <<0, 0, 1, 0, 0, L>>
\* the values randrange(50, 150) can return
randrange_50_150 == 50..149

---------------------------------------------------------------------------
(* Bounds of the exploration *)

\* step calls explored after Init and after each reset
MaxSteps == 2

\* the draws of randrange(50, 150) that are explored
LimitDraws == {L \in randrange_50_150 : L \in {50, 60, 149}}

\* actions offered to step: the five valid ones and two invalid ones
ActionInputs == {-1, 0, 1, 2, 3, 4, 5}

\* Mid-episode states the exploration starts from.  Below the end of the
\* circuit a position is n * 1.6668 m; with speed 6*j it is reached from reset
\* whenever n >= j*(j+1)/2 (accelerate j times, hold at speed 6 to make up the
\* remainder, the last action a hold), in any gear (shift at speed 0 first).
\* The sampled n lie just below each breakpoint and the end of the circuit.
Grid == 6 * 2778
Boundaries == {3000, 7000, 20000, 30000, 35000, 40000, 50000}
ApproachOffsets == {0, 30}
SampleSpeeds == {0, 60, 90, 120, 180}
SamplePositions ==
    { ((b * PosScale) \div Grid - d) * Grid : b \in Boundaries, d \in ApproachOffsets }
    \cup { max_position * PosScale }
MidEpisodeStates ==
    { <<p, s, g, revolutions_update(g, s), consume_update(g, s, 0), limit_update(p, L)>> :
        p \in SamplePositions, s \in SampleSpeeds, g \in min_gear..max_gear,
        L \in LimitDraws }

---------------------------------------------------------------------------
Init ==
    /\ state \in {<<>>} \cup MidEpisodeStates
    /\ call = <<"none", 0>>
    /\ pre = <<>>
    /\ raised = ""
    /\ reward = 0
    /\ done = FALSE
    /\ steps = 0
    /\ lookup = <<>>

reset(L) ==
    /\ state' = reset_state(L)
    /\ call' = <<"reset", 0>>
    /\ pre' = state
    /\ raised' = ""
    /\ steps' = 0
    /\ lookup' = <<>>
    /\ UNCHANGED <<reward, done>>

\* step, explored while fewer than cap step calls were made since the last reset
step_within(action, cap) ==
    /\ steps < cap
    /\ steps' = steps + 1
    /\ call' = <<"step", action>>
    /\ pre' = state
    /\ IF ~action_space_contains(action)
       THEN /\ raised' = "AssertionError"
            /\ lookup' = <<>>
            /\ UNCHANGED <<state, reward, done>>
       ELSE IF state = <<>>
       THEN /\ raised' = "AttributeError"
            /\ lookup' = <<>>
            /\ UNCHANGED <<state, reward, done>>
       ELSE LET i == lookup_index(gear_update(gear_of(state), action))
            IN  /\ lookup' = <<i>>
                /\ IF ~index_in_range(gear_r, i)
                   THEN /\ raised' = "IndexError"
                        /\ UNCHANGED <<state, reward, done>>
                   ELSE /\ raised' = ""
                        /\ state' = step_state(state, action)
                        /\ reward' = step_reward(state')
                        /\ done' = done_of(position_of(state'))

step(action) == step_within(action, MaxSteps)

Reset == \E L \in LimitDraws : reset(L)
Step == \E action \in ActionInputs : step(action)

Next == Reset \/ Step

Spec == Init /\ [][Next]_vars

---------------------------------------------------------------------------
(* Long episodes: a simulator driven from construction with the actions that *)
(* keep the car where it is (decelerate and hold), for one step more than    *)
(* the documented episode length.                                            *)

IdleActions == {0, 1}
EpisodeCap == episode_length_limit + 1

InitEpisode ==
    /\ state = <<>>
    /\ call = <<"none", 0>>
    /\ pre = <<>>
    /\ raised = ""
    /\ reward = 0
    /\ done = FALSE
    /\ steps = 0
    /\ lookup = <<>>

StepEpisode == \E action \in IdleActions : step_within(action, EpisodeCap)

NextEpisode == Reset \/ StepEpisode

SpecEpisode == InitEpisode /\ [][NextEpisode]_vars

---------------------------------------------------------------------------
(* Properties *)

Returned == call[1] = "step" /\ raised = ""
ValidActions == {0, 1, 2, 3, 4}
EndOfCircuit == 50000 * PosScale

\* C1: every state produced by reset or step has all six fields within
\* their declared bounds: position in [0, 50000], speed in [0, 180], gear in
\* [1, 6], revolutions in [0, 6000], consume in [0, 30], limit in [40, 150].
C1_FieldsWithinBounds ==
    state # <<>> =>
        /\ 0 <= state[1] /\ state[1] <= 50000 * PosScale
        /\ 0 <= state[2] /\ state[2] <= 180
        /\ state[3] \in 1..6
        /\ 0 <= state[4] /\ state[4] <= 6000 * RevDen
        /\ 0 <= state[5] /\ state[5] <= 30 * ConsScale
        /\ 40 <= state[6] /\ state[6] <= 150

\* an accelerate at top speed, where the unclipped speed would be 186
C1_Witness ==
    /\ Returned /\ call[2] = 2
    /\ pre[2] = 180 /\ state[2] = 180

\* C2: after reset, called in any state, the state is
\* (0, 0, 1, 0, 0, L) with 50 <= L < 150, whatever the state was before.
C2_ResetDiscardsState ==
    call[1] = "reset" =>
        /\ raised = ""
        /\ Len(state) = 6
        /\ state[1] = 0 /\ state[2] = 0 /\ state[3] = 1
        /\ state[4] = 0 /\ state[5] = 0
        /\ state[6] \in Int /\ 50 <= state[6] /\ state[6] < 150

\* a reset at the end of the circuit, in a state that differs from the reset
\* state in every field
C2_Witness ==
    /\ call[1] = "reset"
    /\ pre # <<>>
    /\ pre[1] = EndOfCircuit /\ pre[2] > 0 /\ pre[3] > 1
    /\ pre[4] > 0 /\ pre[5] > 0 /\ pre[6] # state[6]

\* C3: step with an action outside {0,1,2,3,4} fails with the invalid-action
\* error and leaves the state unchanged.
C3_InvalidActionKeepsState ==
    (call[1] = "step" /\ call[2] \notin ValidActions) =>
        /\ raised = "AssertionError"
        /\ state = pre

\* step(5) on a simulator that has a state
C3_Witness ==
    /\ call = <<"step", 5>>
    /\ pre # <<>>
    /\ raised = "AssertionError"

C5_SpeedAction ==
    (Returned /\ call[2] \in {0, 1, 2}) =>
        LET target == pre[2] + 6 * (call[2] - 1)
        IN  /\ state[2] = (IF target > 180 THEN 180 ELSE IF target < 0 THEN 0 ELSE target)
            /\ state[3] = pre[3]

\* a decelerate at speed 0, in a gear other than the first
C5_Witness ==
    /\ Returned /\ call[2] = 0
    /\ pre[2] = 0 /\ state[2] = 0 /\ pre[3] = 4

\* C6: action 3 gives gear = max(1, g-1), action 4 gives gear = min(6, g+1),
\* and both leave the speed as it was.
C6_GearAction ==
    (Returned /\ call[2] \in {3, 4}) =>
        /\ call[2] = 3 => state[3] = (IF pre[3] - 1 < 1 THEN 1 ELSE pre[3] - 1)
        /\ call[2] = 4 => state[3] = (IF pre[3] + 1 > 6 THEN 6 ELSE pre[3] + 1)
        /\ state[2] = pre[2]

\* the second of two step calls is a downshift in gear 1, at some speed
C6_Witness ==
    /\ Returned /\ call[2] = 3
    /\ steps >= 2
    /\ pre[3] = 1 /\ state[3] = 1 /\ pre[2] > 0

\* C7: after a step the limit is that of the zone of the resulting position
\* p when p > 3000 (the highest breakpoint exceeded wins), and the limit
\* before the step when p <= 3000.
C7_LimitOfZone ==
    Returned =>
        LET p == state[1]
        IN  state[6] =
              (IF p > 40000 * PosScale THEN 90
               ELSE IF p > 35000 * PosScale THEN 80
               ELSE IF p > 30000 * PosScale THEN 140
               ELSE IF p > 20000 * PosScale THEN 70
               ELSE IF p > 7000 * PosScale THEN 100
               ELSE IF p > 3000 * PosScale THEN 120
               ELSE pre[6])

\* a step that crosses the breakpoint at 7000 m
C7_Witness ==
    /\ Returned
    /\ pre[1] <= 7000 * PosScale /\ state[1] > 7000 * PosScale
    /\ pre[6] = 120 /\ state[6] = 100

\* C8: the reward holds the speed penalty -(speed + limit) exactly when the
\* resulting speed is strictly above the resulting limit; otherwise the
\* penalty term is 0.
C8_SpeedPenalty ==
    Returned =>
        LET speed == state[2]
            limit == state[6]
            rest == reward_vel(speed, state[5]) + rev_pen(state[4], speed)
        IN  /\ speed > limit => reward = rest - (speed + limit) * RewardScale
            /\ speed <= limit => reward = rest

\* a step into a new zone whose limit equals the speed, from a zone whose
\* limit was below it
C8_Witness ==
    /\ Returned
    /\ state[2] = state[6]
    /\ pre[6] < state[6]
    /\ pre[2] = state[2]

C10_ValidStepAlwaysReturns ==
    (call[1] = "step" /\ call[2] \in ValidActions) => raised = ""

\* C10: step with a valid action returns whenever the simulator has a state
\* (reset has been called), also after a step that returned done = TRUE; on
\* a simulator on which reset was never called it fails reading self.state.
C10_ValidStepReturnsOnceReset ==
    (call[1] = "step" /\ call[2] \in ValidActions) =>
        IF pre = <<>>
        THEN raised = "AttributeError" /\ state = <<>>
        ELSE raised = "" /\ Len(state) = 6

\* a step taken at the end of the circuit, after done
C10_Witness ==
    /\ Returned
    /\ steps >= 2
    /\ pre[1] = EndOfCircuit
    /\ done

\* C11: every episode terminates: step returns done = TRUE when the car is at
\* the end of the circuit, and also once the number of steps since reset is
\* higher than 40000, whatever the actions.
C11_EpisodeTerminates ==
    Returned =>
        /\ state[1] >= EndOfCircuit => done
        /\ steps > 40000 => done

\* C12: after any step, revolutions are those of the resulting state's own
\* speed and gear: min(6000, max(0, gearRatio[gear-1]*4.64*speed*1000/(1.83*60))),
\* also for accelerate at speed 180 and decelerate at speed 0.
C12_RevolutionsOfResultingSpeed ==
    Returned =>
        LET speed == state[2]
            gear == state[3]
            ratio == <<250, 140, 90, 70, 55, 45>>[gear]
            r == ratio * 464 * speed
        IN  state[4] = (IF r > 6000 * 1098 THEN 6000 * 1098 ELSE IF r < 0 THEN 0 ELSE r)

\* C13: after any step, consume is the polynomial of the resulting gear
\* evaluated on the resulting (clipped) speed, clipped to [0, 30]; one of the
\* six polynomials applies in every step.
C13_ConsumeOfResultingState ==
    Returned =>
        LET s == state[2]
            g == state[3]
            a == <<59, 12, 5, 4, 4, 4>>
            b == <<1857, 574, 207, 216, 183, 198>>
            c == <<110892, 66088, 45582, 41160, 36267, 34347>>
            poly == a[g] * s * s - b[g] * s + c[g]
        IN  /\ g \in 1..6
            /\ state[5] = (IF poly > 300000 THEN 300000 ELSE IF poly < 0 THEN 0 ELSE poly)

\* an upshift into gear 6 at a speed above 0: the polynomial changes with the
\* gear, on the speed the step keeps
C13_Witness ==
    /\ Returned /\ call[2] = 4
    /\ pre[3] = 5 /\ state[3] = 6
    /\ state[2] = 90
    /\ state[5] # pre[5]

\* C14: at the gear_r lookup of every step on a simulator that has a state,
\* the gear (after the action's gear update) is in 1..6, so the index gear-1
\* is in 0..5: the lookup neither fails nor wraps to a negative index.
C14_LookupIndexInRange ==
    (call[1] = "step" /\ call[2] \in ValidActions /\ pre # <<>>) =>
        LET g == IF call[2] = 3 THEN (IF pre[3] > 1 THEN pre[3] - 1 ELSE 1)
                 ELSE IF call[2] = 4 THEN (IF pre[3] < 6 THEN pre[3] + 1 ELSE 6)
                 ELSE pre[3]
        IN  /\ raised # "IndexError"
            /\ Len(lookup) = 1
            /\ lookup[1] \in 0..5
            /\ lookup[1] = g - 1

\* a downshift in gear 1 looks up index 0, an upshift in gear 6 index 5; here
\* the downshift, where an unclipped gear would give index -1
C14_Witness ==
    /\ Returned /\ call[2] = 3
    /\ pre[3] = 1
    /\ lookup = <<0>>

\* C15: within an episode the position never decreases from one step to the
\* next, and done is absorbing: a step taken at the end of the circuit, where
\* the step before returned done = TRUE, returns done = TRUE again with the
\* position still 50000, whatever the valid action.
C15_PositionMonotoneDoneAbsorbing ==
    Returned =>
        /\ state[1] >= pre[1]
        /\ pre[1] >= EndOfCircuit => (done /\ state[1] = EndOfCircuit)

\* a decelerate at speed 0 at the end of the circuit
C15_Witness ==
    /\ Returned /\ call[2] = 0
    /\ pre[1] = EndOfCircuit /\ pre[2] = 0
    /\ state[1] = EndOfCircuit /\ done

\* number of breakpoints a position exceeds: the index of its zone, 0..6
ZoneOf(p) ==
    Cardinality({b \in {3000, 7000, 20000, 30000, 35000, 40000} : p > b * PosScale})
\* the limits of zones 1..6
ZoneLimits == <<120, 100, 70, 140, 80, 90>>

\* C16: within an episode the limit moves along L, 120, 100, 70, 140, 80, 90:
\* a step leaves the car in its zone with the limit unchanged, or takes it to
\* the next zone and that zone's limit; no zone is skipped, none returns; a
\* step that returns done = TRUE has limit 90.
C16_LimitFollowsSequence ==
    Returned =>
        LET z0 == ZoneOf(pre[1])
            z1 == ZoneOf(state[1])
        IN  /\ z1 = z0 \/ z1 = z0 + 1
            /\ z1 = z0 => state[6] = pre[6]
            /\ z1 = z0 + 1 => state[6] = ZoneLimits[z1]
            /\ state[1] - pre[1] <= 180 * 2778
            /\ done => state[6] = 90

\* a step from the 70 zone into the 140 zone
C16_Witness ==
    /\ Returned
    /\ ZoneOf(pre[1]) = 3 /\ ZoneOf(state[1]) = 4
    /\ pre[6] = 70 /\ state[6] = 140

\* C17: the speed is always a multiple of 6 in 0..180, and decelerate followed
\* by accelerate (or the reverse) returns to the speed before the two, except
\* where the first of the two was absorbed by the clip at 0 (or at 180).
C17_SpeedOnGrid ==
    /\ [](state # <<>> => (state[2] \in 0..180 /\ state[2] % 6 = 0))
    /\ [][ /\ (Returned /\ call[2] = 0 /\ call' = <<"step", 2>> /\ raised' = "")
               => state'[2] = (IF pre[2] = 0 THEN 6 ELSE pre[2])
           /\ (Returned /\ call[2] = 2 /\ call' = <<"step", 0>> /\ raised' = "")
               => state'[2] = (IF pre[2] = 180 THEN 174 ELSE pre[2])
         ]_vars

\* the accelerate of a decelerate-accelerate pair that started at 180: 174 is
\* reached by the decelerate alone
C17_Witness ==
    /\ Returned /\ call[2] = 2
    /\ steps >= 2
    /\ pre[2] = 174 /\ state[2] = 180

=============================================================================
